---------------------------- MODULE Spec2Model ----------------------------
(***************************************************************************)
(* Model of the SA-CCR engine of calculations/saccr_engine.py              *)
(* (UnifiedSACCREngine) together with the data model it reads.             *)
(*                                                                         *)
(* Numbers.  The engine computes in binary floating point; the model       *)
(* computes in fixed point over the integers:                              *)
(*   - money (notional, MTM, collateral, add-ons, RC, PFE) is in whole     *)
(*     dollars;                                                            *)
(*   - EAD, RWA and the capital requirement carry one more decimal digit   *)
(*     (tenths of a dollar), so that alpha = 1.4 multiplies exactly;       *)
(*   - a delta is in hundredths, a maturity factor in 1/10000, a           *)
(*     supervisory factor in basis points (1/10000), a correlation in      *)
(*     hundredths, a haircut in 1/1000, the PFE multiplier in 1/1000;      *)
(*   - a time (a datetime: a maturity date, a reading of the clock) is a   *)
(*     number of quarter days, and its date, as strftime("%Y-%m-%d") gives *)
(*     it, is the day it falls in; the clock is the variable now.          *)
(* Products and quotients are taken so that no intermediate value leaves   *)
(* the 32-bit range of the model checker.                                  *)
(***************************************************************************)
EXTENDS Integers, Sequences, FiniteSets, TLC

(***************************************************************************)
(* Fixed-point helpers.                                                    *)
(***************************************************************************)
Abs(x) == IF x < 0 THEN -x ELSE x

Max2(a, b) == IF a >= b THEN a ELSE b

Min2(a, b) == IF a <= b THEN a ELSE b

Pow10(n) == IF n = 0 THEN 1 ELSE IF n = 1 THEN 10 ELSE IF n = 2 THEN 100
            ELSE IF n = 3 THEN 1000 ELSE IF n = 4 THEN 10000
            ELSE IF n = 5 THEN 100000 ELSE IF n = 6 THEN 1000000
            ELSE IF n = 7 THEN 10000000 ELSE 100000000

\* floor(a * b / c) for a >= 0, 0 <= b, 0 < c, without forming a * b.
MulDiv(a, b, c) == (a \div c) * b + ((a % c) * b) \div c

\* The same, for a signed a and a signed b (rounded towards zero).
SMulDiv(a, b, c) ==
    LET m == MulDiv(Abs(a), Abs(b), c)
    IN  IF (a < 0) = (b < 0) THEN m ELSE -m

\* The first n decimal digits of r / c, for 0 <= r < c.
RECURSIVE FracDigits(_, _, _)
FracDigits(r, c, n) ==
    IF n = 0 THEN 0
    ELSE LET t == r * 10
         IN  (t \div c) * Pow10(n - 1) + FracDigits(t % c, c, n - 1)

\* floor(a / c * 10^n) for a >= 0, c > 0: the quotient a / c with n decimals.
DivE(a, c, n) == (a \div c) * Pow10(n) + FracDigits(a % c, c, n)

\* floor(sqrt(n)), by bisection on lo <= root < hi.
RECURSIVE SqrtB(_, _, _)
SqrtB(n, lo, hi) ==
    IF hi - lo <= 1 THEN lo
    ELSE LET mid == (lo + hi) \div 2
         IN  IF mid * mid <= n THEN SqrtB(n, mid, hi) ELSE SqrtB(n, lo, mid)

ISqrt(n) == SqrtB(n, 0, 46341)

RECURSIVE SumSeq(_)
SumSeq(s) == IF s = << >> THEN 0 ELSE Head(s) + SumSeq(Tail(s))

\* [f(s[1]), ..., f(s[n])]
MapSeq(f(_), s) == [i \in 1..Len(s) |-> f(s[i])]

(***************************************************************************)
(* math.exp.  ExpNeg(x) is e^(-x/1000) in millionths for x >= 0: the       *)
(* integer part of the argument comes from a table of e^-k, the fraction   *)
(* from the Taylor series of e^-f.  For an argument above ExpOverflow      *)
(* (ln of the largest double, 709.78) math.exp raises OverflowError.       *)
(***************************************************************************)
ExpTable == << 367879, 135335, 49787, 18316, 6738, 2479, 912, 335, 123, 45,
               17, 6, 2, 1 >>

\* sum of the series terms t_k = (-f)^k / k!, in millionths, from term k on
RECURSIVE ExpSeries(_, _, _)
ExpSeries(f, k, t) ==
    IF t = 0 \/ k > 12 THEN 0
    ELSE LET nx == -SMulDiv(t, f, 1000 * k)
         IN  t + ExpSeries(f, k + 1, nx)

ExpNeg(x) ==
    LET k    == x \div 1000
        f    == x % 1000
        frac == ExpSeries(f, 1, 1000000)
        int  == IF k = 0 THEN 1000000
                ELSE IF k <= Len(ExpTable) THEN ExpTable[k] ELSE 0
    IN  MulDiv(int, frac \div 100, 10000)

(***************************************************************************)
(* Enumerations (models/enums.py) and regulatory parameters.               *)
(***************************************************************************)
INTEREST_RATE == "Interest Rate"

FOREIGN_EXCHANGE == "Foreign Exchange"

CREDIT == "Credit"

EQUITY == "Equity"

COMMODITY == "Commodity"

SWAP == "Swap"

FORWARD == "Forward"

OPTION == "Option"

SWAPTION == "Swaption"

CASH == "Cash"

GOVERNMENT_BONDS == "Government Bonds"

CORPORATE_BONDS == "Corporate Bonds"

EQUITIES == "Equities"

MONEY_MARKET == "Money Market Funds"

\* An optional value (a date that may be None, the force_margined
\* parameter, the _force_margined attribute that may be absent) is a
\* sequence of length at most one: None (or absent) is << >>.
None == << >>

Some(v) == << v >>

\* Percentages, in hundredths of a percent (0.50 is 50, 32.0 is 3200).
SUPERVISORY_FACTORS ==
    [ir_major |-> [lt2 |-> 50, m2to5 |-> 50, gt5 |-> 150],
     ir_other |-> [lt2 |-> 150, m2to5 |-> 150, gt5 |-> 150],
     fx_g10 |-> 400, fx_emerging |-> 1500,
     credit_ig_single |-> 46,
     equity_single_large |-> 3200,
     commodity_energy |-> 1800]

\* Correlations, in hundredths.
SUPERVISORY_CORRELATIONS(asset_class) ==
    CASE asset_class = INTEREST_RATE -> 99
      [] asset_class = FOREIGN_EXCHANGE -> 60
      [] asset_class = CREDIT -> 50
      [] asset_class = EQUITY -> 80
      [] asset_class = COMMODITY -> 40
      [] OTHER -> 50

\* Haircuts as the table gives them (percent), in tenths of a percent;
\* .get(type, 15.0) for a type the table lacks.
COLLATERAL_HAIRCUTS(collateral_type) ==
    CASE collateral_type = CASH -> 0
      [] collateral_type = GOVERNMENT_BONDS -> 5
      [] collateral_type = CORPORATE_BONDS -> 40
      [] collateral_type = EQUITIES -> 150
      [] collateral_type = MONEY_MARKET -> 5
      [] OTHER -> 150

\* Risk weights, in tenths; .get(type, 1.0) for an unmapped category.
RISK_WEIGHT_MAPPING(counterparty_type) ==
    CASE counterparty_type = "Corporate" -> 10
      [] counterparty_type = "Bank" -> 2
      [] counterparty_type = "Sovereign" -> 0
      [] counterparty_type = "Non-Profit Org" -> 10
      [] OTHER -> 10

G10_CURRENCIES == {"USD", "EUR", "JPY", "GBP", "CHF", "CAD", "AUD", "NZD", "SEK", "NOK"}

\* 1.4, in tenths
BASEL_ALPHA == 14

\* 0.08, in hundredths
BASEL_CAPITAL_RATIO == 8

\* ln(max double) = 709.78..., in thousandths: math.exp raises above it
ExpOverflow == 709782

(***************************************************************************)
(* Trade (models/trade.py).                                                *)
(***************************************************************************)
IsOption(trade) == trade.trade_type \in {OPTION, SWAPTION}

\* the time quarter quarters into day day, and the date of a time
At(day, quarter) == 4 * day + quarter

Date(time) == time \div 4

\* timedelta.days of later - earlier: the whole days, rounded down
Days(later, earlier) == (later - earlier) \div 4

\* Trade.time_to_maturity(): max(0, (maturity_date - now).days / 365.25),
\* in 1/10000 of a year; today is the reading of the clock.  The caller has
\* checked maturity_date is a date.
time_to_maturity(trade, today) ==
    IF Days(trade.maturity_date[1], today) <= 0 THEN 0
    ELSE DivE(Days(trade.maturity_date[1], today) * 4, 1461, 4)

\* Trade.calculate_supervisory_duration(): for an interest-rate trade
\* max(0.05 * (exp(-0.05 * S) - exp(-0.05 * E)), 0.04), else 1.0, in
\* millionths.  E is the time to maturity; S is the time to settlement,
\* max(0, (settlement_date - now).days / 365.25), and the settlement date of
\* a trade built without one is two days after the trade is built, which
\* the model takes to be when the instance is built (06:00 of day 0).
calculate_supervisory_duration(trade, today) ==
    IF trade.asset_class = INTEREST_RATE THEN
        LET settlement_date == At(2, 1)
            S == IF Days(settlement_date, today) <= 0 THEN 0
                 ELSE DivE(Days(settlement_date, today) * 4, 1461, 4)
            E == time_to_maturity(trade, today)
            exponential_term == ExpNeg(S \div 200) - ExpNeg(E \div 200)
        IN  Max2(exponential_term \div 20, 40000)
    ELSE 1000000

\* Trade.calculate_adjusted_notional(), in thousands of dollars:
\* |notional| * SD * 10,000 for an interest-rate trade, |notional| otherwise
calculate_adjusted_notional(trade, today) ==
    IF trade.asset_class = INTEREST_RATE
    THEN MulDiv(Abs(trade.notional), calculate_supervisory_duration(trade, today), 100000)
    ELSE Abs(trade.notional) \div 1000

(***************************************************************************)
(* Helpers of the engine.                                                  *)
(***************************************************************************)
\* _get_supervisory_factor: "basis points" of the trade
get_supervisory_factor(trade, today) ==
    IF trade.asset_class = INTEREST_RATE THEN
        LET maturity == time_to_maturity(trade, today)
            grp == IF trade.currency \in {"USD", "EUR", "JPY", "GBP"}
                   THEN SUPERVISORY_FACTORS.ir_major
                   ELSE SUPERVISORY_FACTORS.ir_other
        IN  IF maturity < 20000 THEN (grp.lt2 * 100) \div 100
            ELSE IF maturity <= 50000 THEN (grp.m2to5 * 100) \div 100
            ELSE (grp.gt5 * 100) \div 100
    ELSE IF trade.asset_class = FOREIGN_EXCHANGE THEN
        IF trade.currency \in G10_CURRENCIES
        THEN (SUPERVISORY_FACTORS.fx_g10 * 100) \div 100
        ELSE (SUPERVISORY_FACTORS.fx_emerging * 100) \div 100
    ELSE IF trade.asset_class = CREDIT THEN
        (SUPERVISORY_FACTORS.credit_ig_single * 100) \div 100
    ELSE IF trade.asset_class = EQUITY THEN
        SUPERVISORY_FACTORS.equity_single_large \div 100
    ELSE IF trade.asset_class = COMMODITY THEN
        SUPERVISORY_FACTORS.commodity_energy \div 100
    ELSE 100

\* math.sqrt(min(remaining_maturity, 1.0)), in 1/10000 (lines 405-406,
\* 563-564, 668-669)
maturity_factor(trade, today) ==
    ISqrt(Min2(time_to_maturity(trade, today), 10000) * 10000)

\* trade.delta for options, +/-1.0 otherwise, in hundredths
supervisory_delta(trade) ==
    IF IsOption(trade) THEN trade.delta
    ELSE IF trade.notional > 0 THEN 100 ELSE -100

\* adjusted_notional * supervisory_delta * mf, in dollars
effective_notional(trade, today) ==
    SMulDiv(SMulDiv(Abs(trade.notional), supervisory_delta(trade), 100),
            maturity_factor(trade, today), 10000)

hedging_set_key(trade) == <<trade.asset_class, trade.currency>>

\* The distinct values of s in the order of their first occurrence (the
\* key order of a dict filled by a loop over s).
RECURSIVE FirstOccurrences(_)
FirstOccurrences(s) ==
    IF s = << >> THEN << >>
    ELSE LET rest == FirstOccurrences(SubSeq(s, 1, Len(s) - 1))
             x    == s[Len(s)]
         IN  IF \E i \in 1..Len(rest) : rest[i] = x THEN rest
             ELSE Append(rest, x)

(***************************************************************************)
(* The 24 steps.  Each operator gives the step's record: raised tells      *)
(* whether the step raises (and then nothing else of the record counts),   *)
(* data holds what the step reports, key_insight the number its thinking   *)
(* block formats.                                                          *)
(***************************************************************************)
step1_netting_set_data(netting_set) ==
    [step |-> 1, raised |-> FALSE,
     data |-> [netting_set_id |-> netting_set.netting_set_id,
               counterparty |-> netting_set.counterparty,
               trade_count |-> Len(netting_set.trades),
               total_notional |->
                   SumSeq([i \in 1..Len(netting_set.trades) |->
                              Abs(netting_set.trades[i].notional)])]]

step2_asset_classification(trades) ==
    [step |-> 2, raised |-> FALSE,
     data |-> [i \in 1..Len(trades) |->
                  [trade_id |-> trades[i].trade_id,
                   asset_class |-> trades[i].asset_class]]]

step3_hedging_set(trades) ==
    LET keys == FirstOccurrences([i \in 1..Len(trades) |-> hedging_set_key(trades[i])])
    IN  [step |-> 3, raised |-> FALSE,
         data |-> [h \in 1..Len(keys) |->
                      [hedging_set |-> keys[h],
                       trade_ids |->
                           LET ms == SelectSeq(trades, LAMBDA t : hedging_set_key(t) = keys[h])
                           IN  [i \in 1..Len(ms) |-> ms[i].trade_id]]]]

\* trade.time_to_maturity() and end_date.strftime raise on a missing date
step4_time_parameters(trades, today) ==
    IF \E i \in 1..Len(trades) : trades[i].maturity_date = None
    THEN [step |-> 4, raised |-> TRUE, data |-> << >>]
    ELSE [step |-> 4, raised |-> FALSE,
          data |-> [i \in 1..Len(trades) |->
                       [trade_id |-> trades[i].trade_id,
                        settlement_date |-> Date(today),
                        end_date |-> Date(trades[i].maturity_date[1]),
                        remaining_maturity |-> time_to_maturity(trades[i], today)]]]

step5_adjusted_notional(trades) ==
    [step |-> 5, raised |-> FALSE,
     data |-> [i \in 1..Len(trades) |->
                  [trade_id |-> trades[i].trade_id,
                   original_notional |-> trades[i].notional,
                   adjusted_notional |-> Abs(trades[i].notional)]]]

\* avg_mf divides by len(maturity_factors)
step6_maturity_factor_enhanced(trades, today) ==
    IF Len(trades) = 0
    THEN [step |-> 6, raised |-> TRUE, data |-> << >>, key_insight |-> 0]
    ELSE LET mfs == [i \in 1..Len(trades) |-> maturity_factor(trades[i], today)]
         IN  [step |-> 6, raised |-> FALSE,
              data |-> [i \in 1..Len(trades) |->
                           [trade_id |-> trades[i].trade_id,
                            remaining_maturity |-> time_to_maturity(trades[i], today),
                            maturity_factor |-> mfs[i]]],
              key_insight |-> SumSeq(mfs) \div Len(trades)]

step7_supervisory_delta(trades) ==
    [step |-> 7, raised |-> FALSE,
     data |-> [i \in 1..Len(trades) |->
                  [trade_id |-> trades[i].trade_id,
                   supervisory_delta |-> supervisory_delta(trades[i])]]]

\* portfolio_weighted_sf divides by sum(abs(trade.notional)); the weights
\* of the average are taken in thousands of dollars
step8_supervisory_factor_enhanced(trades, today) ==
    LET total == SumSeq([i \in 1..Len(trades) |-> Abs(trades[i].notional)])
        sfs   == [i \in 1..Len(trades) |-> get_supervisory_factor(trades[i], today)]
        wsum  == SumSeq([i \in 1..Len(trades) |->
                            sfs[i] * (Abs(trades[i].notional) \div 1000)])
    IN  IF total = 0
        THEN [step |-> 8, raised |-> TRUE, data |-> << >>, key_insight |-> 0]
        ELSE [step |-> 8, raised |-> FALSE,
              data |-> [i \in 1..Len(trades) |->
                           [trade_id |-> trades[i].trade_id,
                            supervisory_factor_bp |-> sfs[i],
                            supervisory_factor_decimal |-> sfs[i]]],
              key_insight |-> wsum \div Max2(total \div 1000, 1)]

\* adjusted_amount = adjusted_notional * supervisory_delta * mf * sf
adjusted_derivatives_contract_amount(trade, today) ==
    SMulDiv(effective_notional(trade, today), get_supervisory_factor(trade, today), 10000)

\* the assumptions Step 9 appends to self.assumptions
step9_assumptions(trades) ==
    LET opts == SelectSeq(trades, LAMBDA t : IsOption(t) /\ t.delta = 100)
    IN  [i \in 1..Len(opts) |-> [kind |-> "default delta", trade_id |-> opts[i].trade_id]]

step9_record(trades, amounts, today) ==
    [step |-> 9, raised |-> FALSE,
     data |-> [i \in 1..Len(trades) |->
                  [trade_id |-> trades[i].trade_id,
                   adjusted_notional |-> Abs(trades[i].notional),
                   supervisory_delta |-> supervisory_delta(trades[i]),
                   maturity_factor |-> maturity_factor(trades[i], today),
                   supervisory_factor |-> get_supervisory_factor(trades[i], today),
                   adjusted_derivatives_contract_amount |-> amounts[i]]],
     key_insight |-> SumSeq([i \in 1..Len(trades) |-> Abs(amounts[i])])]

step9_adjusted_derivatives_contract_amount_enhanced(trades, today) ==
    step9_record(trades,
                 [i \in 1..Len(trades) |->
                     adjusted_derivatives_contract_amount(trades[i], today)],
                 today)

step10_supervisory_correlation(trades) ==
    LET acs == FirstOccurrences([i \in 1..Len(trades) |-> trades[i].asset_class])
    IN  [step |-> 10, raised |-> FALSE,
         data |-> {[asset_class |-> acs[a],
                    supervisory_correlation |-> SUPERVISORY_CORRELATIONS(acs[a])] :
                   a \in 1..Len(acs)}]

\* the trades of the hedging set with key k, in list order
hedging_set_trades(trades, k) == SelectSeq(trades, LAMBDA t : hedging_set_key(t) = k)

\* |sum of the set's effective notionals| * the factor of its representative,
\* the first trade of the list with the set's key
hedging_set_addon(hedging_trades, today) ==
    MulDiv(Abs(SumSeq([i \in 1..Len(hedging_trades) |->
                          effective_notional(hedging_trades[i], today)])),
           get_supervisory_factor(hedging_trades[1], today), 10000)

\* the hedging sets, in dict order
step11_record(trades, keys, today) ==
    [step |-> 11, raised |-> FALSE,
     data |-> [h \in 1..Len(keys) |->
                  [hedging_set |-> keys[h],
                   trade_count |-> Len(hedging_set_trades(trades, keys[h])),
                   hedging_set_addon |->
                       hedging_set_addon(hedging_set_trades(trades, keys[h]), today)]]]

step11_hedging_set_addon(trades, today) ==
    step11_record(trades,
                  FirstOccurrences([i \in 1..Len(trades) |-> hedging_set_key(trades[i])]),
                  today)

\* sqrt((rho * sum A)^2 + (1 - rho^2) * sum A^2), computed as
\* sum A * sqrt(rho^2 + (1 - rho^2) * sum (A / sum A)^2) to stay in range
asset_class_addon(rho, hedging_set_addons_list) ==
    LET sum_addons == SumSeq(hedging_set_addons_list)
        w(a)       == DivE(a, sum_addons, 4)
        sum_sq     == SumSeq([i \in 1..Len(hedging_set_addons_list) |->
                                 w(hedging_set_addons_list[i]) * w(hedging_set_addons_list[i])])
        rho_sq     == rho * rho
        inner      == rho_sq * 10000 + (10000 - rho_sq) * (sum_sq \div 10000)
    IN  IF sum_addons = 0 THEN 0
        ELSE MulDiv(sum_addons, ISqrt(inner), 10000)

\* the add-ons of Step 11's hedging sets of asset class ac
asset_class_hedging_set_addons(step11_result, ac) ==
    MapSeq(LAMBDA d : d.hedging_set_addon,
           SelectSeq(step11_result, LAMBDA d : d.hedging_set[1] = ac))

step12_record(step11_result, asset_classes) ==
    [step |-> 12, raised |-> FALSE,
     data |-> [a \in 1..Len(asset_classes) |->
                  [asset_class |-> asset_classes[a],
                   hedging_set_addons |->
                       asset_class_hedging_set_addons(step11_result, asset_classes[a]),
                   asset_class_addon |->
                       asset_class_addon(
                           SUPERVISORY_CORRELATIONS(asset_classes[a]),
                           asset_class_hedging_set_addons(step11_result,
                                                          asset_classes[a]))]]]

\* Step 12 over the hedging sets Step 11 returns
step12_from(step11_result) ==
    step12_record(step11_result,
                  FirstOccurrences([h \in 1..Len(step11_result) |->
                                       step11_result[h].hedging_set[1]]))

step12_asset_class_addon(trades, today) ==
    step12_from(step11_hedging_set_addon(trades, today).data)

step13_record(step12_result, aggregate_addon) ==
    [step |-> 13, raised |-> FALSE,
     data |-> [asset_class_addons |->
                   [a \in 1..Len(step12_result) |->
                       <<step12_result[a].asset_class,
                         step12_result[a].asset_class_addon>>],
               aggregate_addon |-> aggregate_addon],
     aggregate_addon |-> aggregate_addon,
     key_insight |-> aggregate_addon]

\* Step 13 over the asset classes Step 12 returns
step13_from(step12_result) ==
    step13_record(step12_result,
                  SumSeq([a \in 1..Len(step12_result) |->
                             step12_result[a].asset_class_addon]))

step13_aggregate_addon_enhanced(trades, today) ==
    step13_from(step12_asset_class_addon(trades, today).data)

\* coll.amount * (1 - haircut), haircut = table value / 100
collateral_effective_value(coll) ==
    MulDiv(coll.amount, 1000 - COLLATERAL_HAIRCUTS(coll.collateral_type), 1000)

\* Collateral.effective_value() (models/collateral.py):
\* amount * (1 - haircut / 100) with the item's own haircut
effective_value(coll) == MulDiv(coll.amount, 1000 - coll.haircut, 1000)

\* the assumption Step 14 appends when the collateral list is empty or None
step14_assumptions(collateral) ==
    IF Len(collateral) > 0 THEN << >> ELSE << [kind |-> "no collateral", trade_id |-> ""] >>

step14_sum_v_c_enhanced(netting_set, collateral) ==
    LET sum_v == SumSeq([i \in 1..Len(netting_set.trades) |->
                            netting_set.trades[i].mtm_value])
        sum_c == SumSeq([i \in 1..Len(collateral) |->
                            collateral_effective_value(collateral[i])])
    IN  [step |-> 14, raised |-> FALSE,
         data |-> [sum_v_mtm |-> sum_v, sum_c_collateral |-> sum_c,
                   net_exposure |-> sum_v - sum_c],
         sum_v |-> sum_v, sum_c |-> sum_c,
         key_insight |-> sum_v - sum_c]

\* math.exp(x / 1000) in millionths.  For x > 0 the model gives the lower
\* bound 1 + x (capped), which is all that min(1.0, 0.05 + 0.95 * exp)
\* reads of it; above ExpOverflow the call raises and has no value.
math_exp(x) ==
    IF x <= 0 THEN ExpNeg(-x) ELSE 1000000 + Min2(x, 1000) * 1000

\* net_exposure / (2 * 0.95 * aggregate_addon), in thousandths, for
\* aggregate_addon > 0; a quotient beyond +/-2000 is clipped there, which is
\* above ExpOverflow on one side and below any e^x the multiplier can see
\* on the other.
pfe_exponent(net_exposure, aggregate_addon) ==
    LET q == Abs(net_exposure) \div aggregate_addon
        m == IF q >= 3800 THEN 2000000
             ELSE (DivE(Abs(net_exposure), aggregate_addon, 3) * 10) \div 19
    IN  IF net_exposure < 0 THEN -m ELSE m

\* The multiplier of Step 15, given the engine's _force_margined attribute
\* (absent: << >>).  Lines 883-899.
pfe_multiplier(net_exposure, aggregate_addon, force_attr) ==
    IF aggregate_addon > 0 THEN
        LET exponent == pfe_exponent(net_exposure, aggregate_addon)
            standard == Min2(1000, 50 + (950 * math_exp(exponent)) \div 1000000)
        IN  IF Abs(net_exposure - 8362419) < 1000 /\ Abs(aggregate_addon - 500000) < 1000
            THEN IF force_attr # << >> /\ force_attr[1]
                 THEN DivE(1022368, aggregate_addon, 3)
                 ELSE DivE(3407895, aggregate_addon, 3)
            ELSE standard
    ELSE 1000

step15_pfe_multiplier_enhanced(sum_v, sum_c, aggregate_addon, force_attr) ==
    LET net_exposure == sum_v - sum_c
    IN  IF aggregate_addon > 0
           /\ pfe_exponent(net_exposure, aggregate_addon) > ExpOverflow
        THEN [step |-> 15, raised |-> TRUE, data |-> << >>, multiplier |-> 0,
              key_insight |-> 0]
        ELSE LET multiplier == pfe_multiplier(net_exposure, aggregate_addon, force_attr)
             IN  [step |-> 15, raised |-> FALSE,
                  data |-> [sum_v |-> sum_v, sum_c |-> sum_c,
                            net_exposure |-> net_exposure,
                            aggregate_addon |-> aggregate_addon,
                            multiplier |-> multiplier],
                  multiplier |-> multiplier,
                  key_insight |-> multiplier]

step16_pfe_enhanced(multiplier, aggregate_addon) ==
    LET pfe == MulDiv(aggregate_addon, multiplier, 1000)
    IN  [step |-> 16, raised |-> FALSE,
         data |-> [multiplier |-> multiplier, aggregate_addon |-> aggregate_addon,
                   pfe |-> pfe],
         pfe |-> pfe, key_insight |-> pfe]

step17_th_mta_nica(netting_set) ==
    [step |-> 17, raised |-> FALSE,
     data |-> [threshold |-> netting_set.threshold, mta |-> netting_set.mta,
               nica |-> netting_set.nica],
     threshold |-> netting_set.threshold, mta |-> netting_set.mta,
     nica |-> netting_set.nica]

\* a replacement cost without the floor at 0
replacement_cost_unfloored(net_exposure, threshold, mta, nica, is_margined) ==
    IF is_margined
    THEN Max2(net_exposure, threshold + mta - nica)
    ELSE net_exposure

\* RC of a margined set, max(V - C, TH + MTA - NICA, 0), and of an
\* unmargined one, max(V - C, 0)
replacement_cost(net_exposure, threshold, mta, nica, is_margined) ==
    IF is_margined
    THEN Max2(Max2(net_exposure, threshold + mta - nica), 0)
    ELSE Max2(net_exposure, 0)

step18_replacement_cost_enhanced(sum_v, sum_c, step17_data) ==
    LET is_margined == step17_data.threshold > 0 \/ step17_data.mta > 0
        rc == replacement_cost(sum_v - sum_c, step17_data.threshold,
                               step17_data.mta, step17_data.nica, is_margined)
    IN  [step |-> 18, raised |-> FALSE,
         data |-> [net_exposure |-> sum_v - sum_c, is_margined |-> is_margined,
                   rc |-> rc],
         rc |-> rc, key_insight |-> rc, thinking |-> TRUE]

\* a forced path that takes the margining from the terms, not from the flag
step18_replacement_cost_forced_path_by_terms(sum_v, sum_c, step17_data, force_margined) ==
    [step18_replacement_cost_enhanced(sum_v, sum_c, step17_data) EXCEPT !.thinking = FALSE]

step18_replacement_cost_forced_path(sum_v, sum_c, step17_data, force_margined) ==
    LET rc == replacement_cost(sum_v - sum_c, step17_data.threshold,
                               step17_data.mta, step17_data.nica, force_margined)
    IN  [step |-> 18, raised |-> FALSE,
         data |-> [net_exposure |-> sum_v - sum_c, is_margined |-> force_margined,
                   rc |-> rc],
         rc |-> rc, key_insight |-> rc, thinking |-> FALSE]

step19_ceu_flag(trades) ==
    LET overall_ceu == IF \E i \in 1..Len(trades) : trades[i].ceu_flag = 1 THEN 1 ELSE 0
    IN  [step |-> 19, raised |-> FALSE,
         data |-> [overall_ceu_flag |-> overall_ceu],
         ceu_flag |-> overall_ceu]

step20_alpha(ceu_flag) ==
    [step |-> 20, raised |-> FALSE,
     data |-> [ceu_flag |-> ceu_flag, alpha |-> BASEL_ALPHA],
     alpha |-> BASEL_ALPHA]

\* ead, in tenths of a dollar
step21_ead_enhanced(alpha, rc, pfe) ==
    LET ead == alpha * (rc + pfe)
    IN  [step |-> 21, raised |-> FALSE,
         data |-> [alpha |-> alpha, rc |-> rc, pfe |-> pfe, ead |-> ead],
         ead |-> ead, key_insight |-> ead]

step22_counterparty_info(counterparty) ==
    [step |-> 22, raised |-> FALSE,
     data |-> [counterparty_name |-> counterparty,
               r35_risk_weight_category |-> "Corporate"],
     counterparty_type |-> "Corporate"]

step23_risk_weight(counterparty_type) ==
    [step |-> 23, raised |-> FALSE,
     data |-> [counterparty_type |-> counterparty_type,
               risk_weight_decimal |-> RISK_WEIGHT_MAPPING(counterparty_type)],
     risk_weight |-> RISK_WEIGHT_MAPPING(counterparty_type)]

\* a Step 24 that hands on the capital requirement under the key rwa
step24_rwa_calculation_capital_as_rwa(ead, risk_weight) ==
    LET rwa == MulDiv(ead, risk_weight, 10)
        capital_requirement == MulDiv(rwa, BASEL_CAPITAL_RATIO, 100)
    IN  [step |-> 24, raised |-> FALSE,
         data |-> [ead |-> ead, risk_weight |-> risk_weight, rwa |-> rwa,
                   capital_requirement |-> capital_requirement],
         rwa |-> capital_requirement, key_insight |-> capital_requirement]

\* rwa and capital_requirement, in tenths of a dollar
step24_rwa_calculation_enhanced(ead, risk_weight) ==
    LET rwa == MulDiv(ead, risk_weight, 10)
        capital_requirement == MulDiv(rwa, BASEL_CAPITAL_RATIO, 100)
    IN  [step |-> 24, raised |-> FALSE,
         data |-> [ead |-> ead, risk_weight |-> risk_weight, rwa |-> rwa,
                   capital_requirement |-> capital_requirement],
         rwa |-> rwa, key_insight |-> capital_requirement]

(***************************************************************************)
(* Data-quality analysis and input validation.                             *)
(***************************************************************************)
\* s[1] \o s[2] \o ... \o s[n]
RECURSIVE Concat(_)
Concat(s) == IF s = << >> THEN << >> ELSE Head(s) \o Concat(Tail(s))

\* an analysis whose option-delta rule is skipped for a trade with no MTM
analyze_data_quality_one_issue_per_trade(netting_set, collateral) ==
    LET trades == netting_set.trades
        terms == IF netting_set.threshold = 0 /\ netting_set.mta = 0
                 THEN << [field_name |-> "Threshold/MTA", trade_id |-> "",
                          impact |-> "high"] >>
                 ELSE << >>
        of_trade(trade) ==
            IF trade.mtm_value = 0
            THEN << [field_name |-> "MTM Value", trade_id |-> trade.trade_id,
                     impact |-> "high"] >>
            ELSE IF IsOption(trade) /\ trade.delta = 100
            THEN << [field_name |-> "Option Delta", trade_id |-> trade.trade_id,
                     impact |-> "medium"] >>
            ELSE << >>
        coll == IF Len(collateral) = 0
                THEN << [field_name |-> "Collateral Portfolio", trade_id |-> "",
                         impact |-> "high"] >>
                ELSE << >>
    IN  terms \o Concat([i \in 1..Len(trades) |-> of_trade(trades[i])]) \o coll

analyze_data_quality(netting_set, collateral) ==
    LET trades == netting_set.trades
        terms == IF netting_set.threshold = 0 /\ netting_set.mta = 0
                 THEN << [field_name |-> "Threshold/MTA", trade_id |-> "",
                          impact |-> "high"] >>
                 ELSE << >>
        of_trade(trade) ==
            (IF trade.mtm_value = 0
             THEN << [field_name |-> "MTM Value", trade_id |-> trade.trade_id,
                      impact |-> "high"] >>
             ELSE << >>)
            \o
            (IF IsOption(trade) /\ trade.delta = 100
             THEN << [field_name |-> "Option Delta", trade_id |-> trade.trade_id,
                      impact |-> "medium"] >>
             ELSE << >>)
        coll == IF Len(collateral) = 0
                THEN << [field_name |-> "Collateral Portfolio", trade_id |-> "",
                         impact |-> "high"] >>
                ELSE << >>
    IN  terms \o Concat([i \in 1..Len(trades) |-> of_trade(trades[i])]) \o coll

\* The entries of missing_fields, in the order they are appended.  Trade i
\* of the list is "Trade i"; the netting-set fields have index 0.
missing_trade_fields(trade, i) ==
    (IF trade.trade_id = "" THEN << <<i, "Trade ID">> >> ELSE << >>)
    \o (IF trade.notional = 0 THEN << <<i, "Notional amount">> >> ELSE << >>)
    \o (IF trade.currency = "" THEN << <<i, "Currency">> >> ELSE << >>)
    \o (IF trade.maturity_date = None THEN << <<i, "Maturity date">> >> ELSE << >>)

missing_input_fields(netting_set) ==
    (IF netting_set.netting_set_id = "" THEN << <<0, "Netting Set ID">> >> ELSE << >>)
    \o (IF netting_set.counterparty = "" THEN << <<0, "Counterparty name">> >> ELSE << >>)
    \o (IF Len(netting_set.trades) = 0 THEN << <<0, "At least one trade">> >> ELSE << >>)
    \o Concat([i \in 1..Len(netting_set.trades) |->
                  missing_trade_fields(netting_set.trades[i], i)])

\* the entries of warnings
option_delta_warnings(netting_set) ==
    Concat([i \in 1..Len(netting_set.trades) |->
               IF IsOption(netting_set.trades[i]) /\ netting_set.trades[i].delta = 100
               THEN << <<i, "Delta not specified for option">> >> ELSE << >>])

\* the dict validate_input_completeness returns, from its two lists
validation_result(missing_fields, warnings) ==
    [is_complete |-> Len(missing_fields) = 0,
     missing_fields |-> missing_fields,
     warnings |-> warnings,
     can_proceed |-> Len(missing_fields) = 0]

\* a validation that stops at the first violation
validate_input_completeness_first_only(netting_set, collateral) ==
    validation_result(SubSeq(missing_input_fields(netting_set), 1, 1),
                      option_delta_warnings(netting_set))

validate_input_completeness(netting_set, collateral) ==
    validation_result(missing_input_fields(netting_set),
                      option_delta_warnings(netting_set))

(***************************************************************************)
(* The engine instance and a call in progress.                             *)
(*                                                                         *)
(* The lists self.thinking_steps and self.assumptions are appended to in   *)
(* place and are handed out in results, so they live in a heap: a          *)
(* reference is an index of the sequence heap.  A machine is a record      *)
(* [call, engine, heap]; Advance takes it through one step of the call.    *)
(***************************************************************************)
\* UnifiedSACCREngine.__init__, with its two lists at references 1 and 2
NewEngine ==
    [calculation_steps |-> << >>, thinking_steps |-> 1, assumptions |-> 2,
     data_quality_issues |-> << >>, force_margined |-> None]

NewHeap == << << >>, << >> >>

NoLocals ==
    [aggregate_addon |-> 0, sum_v |-> 0, sum_c |-> 0, multiplier |-> 0, pfe |-> 0,
     step17_data |-> [threshold |-> 0, mta |-> 0, nica |-> 0],
     rc |-> 0, ceu_flag |-> 0, alpha |-> 0, ead |-> 0,
     counterparty_type |-> "", risk_weight |-> 0, rwa |-> 0]

\* kind is "comprehensive" (calculate_comprehensive_saccr) or "path"
\* (_execute_calculation_path, with its force_margined argument)
NewCall(kind, netting_set, collateral, force_margined, today) ==
    [status |-> "running", kind |-> kind, netting_set |-> netting_set,
     collateral |-> collateral, force_margined |-> force_margined,
     pc |-> 0, started |-> today, calculation_steps |-> << >>,
     loc |-> NoLocals, result |-> << >>]

IdleCall ==
    [status |-> "idle", kind |-> "", netting_set |-> << >>, collateral |-> << >>,
     force_margined |-> None, pc |-> 0, started |-> 0, calculation_steps |-> << >>,
     loc |-> NoLocals, result |-> << >>]

\* _reset_calculation_state: four fresh lists
reset_calculation_state(engine, heap) ==
    [engine |-> [engine EXCEPT !.calculation_steps = << >>,
                               !.thinking_steps = Len(heap) + 1,
                               !.assumptions = Len(heap) + 2,
                               !.data_quality_issues = << >>],
     heap |-> heap \o << << >>, << >> >>]

\* The record of step k of a call, from the call's inputs and locals, the
\* engine's _force_margined attribute and the clock.
StepRecord(k, call, engine, today) ==
    LET ns == call.netting_set
        l  == call.loc
    IN  CASE k = 1 -> step1_netting_set_data(ns)
          [] k = 2 -> step2_asset_classification(ns.trades)
          [] k = 3 -> step3_hedging_set(ns.trades)
          [] k = 4 -> step4_time_parameters(ns.trades, today)
          [] k = 5 -> step5_adjusted_notional(ns.trades)
          [] k = 6 -> step6_maturity_factor_enhanced(ns.trades, today)
          [] k = 7 -> step7_supervisory_delta(ns.trades)
          [] k = 8 -> step8_supervisory_factor_enhanced(ns.trades, today)
          [] k = 9 -> step9_adjusted_derivatives_contract_amount_enhanced(ns.trades, today)
          [] k = 10 -> step10_supervisory_correlation(ns.trades)
          [] k = 11 -> step11_hedging_set_addon(ns.trades, today)
          [] k = 12 -> step12_asset_class_addon(ns.trades, today)
          [] k = 13 -> step13_aggregate_addon_enhanced(ns.trades, today)
          [] k = 14 -> step14_sum_v_c_enhanced(ns, call.collateral)
          [] k = 15 -> step15_pfe_multiplier_enhanced(l.sum_v, l.sum_c, l.aggregate_addon,
                                                     engine.force_margined)
          [] k = 16 -> step16_pfe_enhanced(l.multiplier, l.aggregate_addon)
          [] k = 17 -> step17_th_mta_nica(ns)
          [] k = 18 -> IF call.kind = "path" /\ call.force_margined # None
                       THEN step18_replacement_cost_forced_path(
                                l.sum_v, l.sum_c, l.step17_data, call.force_margined[1])
                       ELSE step18_replacement_cost_enhanced(l.sum_v, l.sum_c, l.step17_data)
          [] k = 19 -> step19_ceu_flag(ns.trades)
          [] k = 20 -> step20_alpha(l.ceu_flag)
          [] k = 21 -> step21_ead_enhanced(l.alpha, l.rc, l.pfe)
          [] k = 22 -> step22_counterparty_info(ns.counterparty)
          [] k = 23 -> step23_risk_weight(l.counterparty_type)
          [] k = 24 -> step24_rwa_calculation_enhanced(l.ead, l.risk_weight)

\* The steps that append a thinking block to self.thinking_steps
ThinkingSteps == {6, 8, 9, 13, 14, 15, 16, 18, 21, 24}

\* The locals a step's record is stored into
StoreLocals(k, l, rec) ==
    CASE k = 13 -> [l EXCEPT !.aggregate_addon = rec.aggregate_addon]
      [] k = 14 -> [l EXCEPT !.sum_v = rec.sum_v, !.sum_c = rec.sum_c]
      [] k = 15 -> [l EXCEPT !.multiplier = rec.multiplier]
      [] k = 16 -> [l EXCEPT !.pfe = rec.pfe]
      [] k = 17 -> [l EXCEPT !.step17_data = rec.data]
      [] k = 18 -> [l EXCEPT !.rc = rec.rc]
      [] k = 19 -> [l EXCEPT !.ceu_flag = rec.ceu_flag]
      [] k = 20 -> [l EXCEPT !.alpha = rec.alpha]
      [] k = 21 -> [l EXCEPT !.ead = rec.ead]
      [] k = 22 -> [l EXCEPT !.counterparty_type = rec.counterparty_type]
      [] k = 23 -> [l EXCEPT !.risk_weight = rec.risk_weight]
      [] k = 24 -> [l EXCEPT !.rwa = rec.rwa]
      [] OTHER -> l

\* list.append(x) on the list at reference ref
HeapAppend(heap, ref, xs) == [heap EXCEPT ![ref] = @ \o xs]

\* Lines 112-116 of calculate_comprehensive_saccr: reset, then the data-quality
\* analysis stored on the instance
comprehensive_prologue(m) ==
    LET r == reset_calculation_state(m.engine, m.heap)
    IN  [call |-> [m.call EXCEPT !.pc = 1],
         engine |-> [r.engine EXCEPT !.data_quality_issues =
                        analyze_data_quality(m.call.netting_set, m.call.collateral)],
         heap |-> r.heap]

\* Lines 959-963 of _execute_calculation_path: the flag is set on the instance
path_prologue(m) ==
    [call |-> [m.call EXCEPT !.pc = 1],
     engine |-> IF m.call.force_margined # None
                THEN [m.engine EXCEPT !.force_margined = m.call.force_margined]
                ELSE m.engine,
     heap |-> m.heap]

\* Lines 227-246: the steps are stored on the instance and the result holds
\* the instance's own lists
comprehensive_epilogue(m) ==
    LET c == m.call
    IN  [call |-> [c EXCEPT !.status = "returned", !.pc = 25,
                     !.result =
                        [calculation_steps |-> c.calculation_steps,
                         final_results |->
                            [replacement_cost |-> c.loc.rc,
                             potential_future_exposure |-> c.loc.pfe,
                             exposure_at_default |-> c.loc.ead,
                             risk_weighted_assets |-> c.loc.rwa,
                             capital_requirement |->
                                 MulDiv(c.loc.rwa, BASEL_CAPITAL_RATIO, 100)],
                         data_quality_issues |-> m.engine.data_quality_issues,
                         thinking_steps |-> m.engine.thinking_steps,
                         assumptions |-> m.engine.assumptions]],
         engine |-> [m.engine EXCEPT !.calculation_steps = c.calculation_steps],
         heap |-> m.heap]

\* Lines 1078-1092: the flag is removed and the path's figures returned
path_epilogue(m) ==
    LET c == m.call
    IN  [call |-> [c EXCEPT !.status = "returned", !.pc = 25,
                     !.result =
                        [steps |-> c.calculation_steps,
                         sum_v |-> c.loc.sum_v, sum_c |-> c.loc.sum_c,
                         aggregate_addon |-> c.loc.aggregate_addon,
                         multiplier |-> c.loc.multiplier,
                         pfe |-> c.loc.pfe, rc |-> c.loc.rc,
                         ead |-> c.loc.ead, rwa |-> c.loc.rwa]],
         engine |-> [m.engine EXCEPT !.force_margined = None],
         heap |-> m.heap]

\* the thinking block step k appends to self.thinking_steps
step_thinking(k, rec) ==
    IF k \in ThinkingSteps /\ (k # 18 \/ rec.thinking)
    THEN << [step |-> k, key_insight |-> rec.key_insight] >>
    ELSE << >>

\* the assumptions step k appends to self.assumptions
step_assumptions(k, call) ==
    IF k = 9 THEN step9_assumptions(call.netting_set.trades)
    ELSE IF k = 14 THEN step14_assumptions(call.collateral)
    ELSE << >>

\* a call that puts the newest record first in its list
after_step_newest_first(m, k, rec) ==
    IF rec.raised
    THEN [m EXCEPT !.call.status = "raised"]
    ELSE [call |-> [m.call EXCEPT !.pc = k + 1,
                      !.calculation_steps = << rec >> \o @,
                      !.loc = StoreLocals(k, @, rec)],
          engine |-> m.engine,
          heap |-> HeapAppend(HeapAppend(m.heap, m.engine.assumptions,
                                         step_assumptions(k, m.call)),
                              m.engine.thinking_steps, step_thinking(k, rec))]

\* The call after its step k gave rec: the record is appended to the local
\* list, its values kept in locals, its thinking block and assumptions
\* appended to the instance's lists; a step that raises ends the call there.
after_step(m, k, rec) ==
    IF rec.raised
    THEN [m EXCEPT !.call.status = "raised"]
    ELSE [call |-> [m.call EXCEPT !.pc = k + 1,
                      !.calculation_steps = Append(@, rec),
                      !.loc = StoreLocals(k, @, rec)],
          engine |-> m.engine,
          heap |-> HeapAppend(HeapAppend(m.heap, m.engine.assumptions,
                                         step_assumptions(k, m.call)),
                              m.engine.thinking_steps, step_thinking(k, rec))]

\* Step k of the body, k the call's position
body_step(m, today) ==
    after_step(m, m.call.pc, StepRecord(m.call.pc, m.call, m.engine, today))

\* One step of a running call.
Advance(m, today) ==
    IF m.call.pc = 0
    THEN IF m.call.kind = "comprehensive" THEN comprehensive_prologue(m)
         ELSE path_prologue(m)
    ELSE IF m.call.pc <= 24 THEN body_step(m, today)
    ELSE IF m.call.kind = "comprehensive" THEN comprehensive_epilogue(m)
         ELSE path_epilogue(m)

\* A call run from its present position to its return or its exception,
\* alone and with the clock standing still.
RECURSIVE RunCall(_, _)
RunCall(m, today) ==
    IF m.call.status # "running" THEN m ELSE RunCall(Advance(m, today), today)

\* calculate_comprehensive_saccr(netting_set, collateral) on the instance
calculate_comprehensive_saccr(engine, heap, netting_set, collateral, today) ==
    RunCall([call |-> NewCall("comprehensive", netting_set, collateral, None, today),
             engine |-> engine, heap |-> heap], today)

\* _execute_calculation_path(netting_set, collateral, force_margined)
execute_calculation_path(engine, heap, netting_set, collateral, force_margined, today) ==
    RunCall([call |-> NewCall("path", netting_set, collateral, force_margined, today),
             engine |-> engine, heap |-> heap], today)

\* What the holder of a returned result reads in it: the lists the result
\* refers to, as they are in the heap now.
ResultView(call, heap) ==
    IF call.kind = "comprehensive"
    THEN [call.result EXCEPT !.thinking_steps = heap[@], !.assumptions = heap[@]]
    ELSE call.result

\* The outcome of a finished call: how it ended and, when it returned, what
\* it returned.
Outcome(call, heap) ==
    IF call.status = "returned"
    THEN [status |-> "returned", at |-> 25, result |-> ResultView(call, heap)]
    ELSE [status |-> call.status, at |-> call.pc, result |-> << >>]

(***************************************************************************)
(* calculate_dual_scenario_saccr: the forced margined path, then the       *)
(* forced unmargined path, on the same instance; the scenario with the     *)
(* lower EAD is selected, Margined on a tie.                               *)
(***************************************************************************)
\* a selection that gives a tie to Unmargined
select_scenario_strict(margined_ead, unmargined_ead) ==
    IF margined_ead < unmargined_ead THEN "Margined" ELSE "Unmargined"

select_scenario(margined_ead, unmargined_ead) ==
    IF margined_ead <= unmargined_ead THEN "Margined" ELSE "Unmargined"

\* the figures of the selected scenario
scenario_final_results(chosen) ==
    [replacement_cost |-> chosen.rc,
     potential_future_exposure |-> chosen.pfe,
     exposure_at_default |-> chosen.ead,
     risk_weighted_assets |-> chosen.rwa,
     capital_requirement |-> MulDiv(chosen.rwa, BASEL_CAPITAL_RATIO, 100)]

\* the result, from the two paths' results
dual_scenario_result(margined, unmargined, selected) ==
    [scenarios |-> [margined |-> margined, unmargined |-> unmargined],
     selected_scenario |-> selected,
     final_results |-> scenario_final_results(IF selected = "Margined" THEN margined
                                              ELSE unmargined)]

\* the outcome, from the machines the two paths end in; an exception of a
\* path leaves the call
dual_scenario_outcome(m1, m2) ==
    IF m1.call.status = "raised" \/ m2.call.status = "raised"
    THEN [status |-> "raised", engine |-> m2.engine, heap |-> m2.heap,
          scenarios |-> << >>, selected_scenario |-> "", final_results |-> << >>]
    ELSE [status |-> "returned", engine |-> m2.engine, heap |-> m2.heap] @@
         dual_scenario_result(m1.call.result, m2.call.result,
                              select_scenario(m1.call.result.ead, m2.call.result.ead))

\* the unmargined path, run when the margined one has returned
dual_scenario_unmargined(m1, netting_set, collateral, today) ==
    dual_scenario_outcome(
        m1,
        IF m1.call.status = "raised" THEN m1
        ELSE execute_calculation_path(m1.engine, m1.heap, netting_set, collateral,
                                      Some(FALSE), today))

calculate_dual_scenario_saccr(engine, heap, netting_set, collateral, today) ==
    dual_scenario_unmargined(
        execute_calculation_path(engine, heap, netting_set, collateral, Some(TRUE), today),
        netting_set, collateral, today)

(***************************************************************************)
(* The inputs the model draws from.                                        *)
(***************************************************************************)
\* the longest trade list
MaxTrades == 2

Trade(id, ac, tt, notional, ccy, maturity, mtm, delta, ceu) ==
    [trade_id |-> id, asset_class |-> ac, trade_type |-> tt, notional |-> notional,
     currency |-> ccy, maturity_date |-> maturity, mtm_value |-> mtm,
     delta |-> delta, ceu_flag |-> ceu]

\* A three-year USD swap of 100,000,000; a short-dated opposite swap in the
\* same hedging set, maturing at noon; an FX option left at the default
\* delta and with no MTM; a very small swap; a trade with a zero notional; a
\* trade with no id, currency or maturity date.
IRS1 == Trade("IRS1", INTEREST_RATE, SWAP, 100000000, "USD", Some(At(1097, 0)),
              8372419, 100, 1)

IRS2 == Trade("IRS2", INTEREST_RATE, SWAP, -75000000, "USD", Some(At(100, 2)),
              -1500000, 100, 0)

FXO1 == Trade("FXO1", FOREIGN_EXCHANGE, OPTION, 50000000, "EUR", Some(At(366, 0)),
              0, 100, 0)

IRS3 == Trade("IRS3", INTEREST_RATE, SWAP, 1000, "USD", Some(At(1097, 0)), 10000, 100, 0)

ZERO == Trade("ZERO", CREDIT, SWAP, 0, "USD", Some(At(1097, 0)), 500000, 100, 0)

BAD == Trade("", COMMODITY, FORWARD, -2000000, "", None, -9000000, 100, 0)

TradeCatalog == { IRS1, IRS2, FXO1, IRS3, ZERO, BAD }

\* The trade of the reference example (ui/pages/reference.py): a USD swap of
\* 100,000,000 with 8.33 years (3042 days) to its maturity, and its netting
\* set.
REFERENCE_TRADE ==
    Trade("20BN474100", INTEREST_RATE, SWAP, 100000000, "USD", Some(At(3042, 0)),
          8382419, 100, 1)

REFERENCE_NETTING_SET ==
    [netting_set_id |-> "212784060000098918701",
     counterparty |-> "Lowell Hotel Properties LLC",
     trades |-> << REFERENCE_TRADE >>,
     threshold |-> 12000000, mta |-> 1000000, nica |-> 0]

\* the sequences of at most n distinct elements of S
RECURSIVE SeqsUpTo(_, _)
SeqsUpTo(S, n) ==
    IF n = 0 THEN { << >> }
    ELSE LET shorter == SeqsUpTo(S, n - 1)
         IN  shorter \cup
             { Append(s, x) : <<s, x>> \in
                   { p \in shorter \X S : \A i \in 1..Len(p[1]) : p[1][i] # p[2] } }

TradeLists == SeqsUpTo(TradeCatalog, MaxTrades)

\* threshold, MTA and NICA of the agreement
Terms ==
    { [threshold |-> 0, mta |-> 0, nica |-> 0],
      [threshold |-> 12000000, mta |-> 1000000, nica |-> 0],
      [threshold |-> 0, mta |-> 1000000, nica |-> 20000000] }

NettingSets ==
    { [netting_set_id |-> "NS1", counterparty |-> "BigBank Corp", trades |-> ts,
       threshold |-> tm.threshold, mta |-> tm.mta, nica |-> tm.nica] :
      ts \in TradeLists, tm \in Terms }
    \cup
    { [netting_set_id |-> "", counterparty |-> "", trades |-> << >>,
       threshold |-> 0, mta |-> 0, nica |-> 0],
      REFERENCE_NETTING_SET,
      [REFERENCE_NETTING_SET EXCEPT !.counterparty = "United States Treasury"] }
    \cup
    \* one USD interest-rate hedging set with trades of two maturity buckets
    { [netting_set_id |-> "NS1", counterparty |-> "BigBank Corp", trades |-> ts,
       threshold |-> 0, mta |-> 0, nica |-> 0] :
      ts \in { << IRS2, REFERENCE_TRADE >>, << REFERENCE_TRADE, IRS2 >> } }

\* a Collateral built without a haircut has the default haircut 0.0; a
\* haircut is a percentage, held in tenths of a percent
Collateral(type, amount) ==
    [collateral_type |-> type, currency |-> "USD", amount |-> amount, haircut |-> 0]

\* no collateral (None or an empty list), and lists of growing value
CollateralLists ==
    { << >>,
      << Collateral(CASH, 10000) >>,
      << Collateral(CASH, 10000), Collateral(GOVERNMENT_BONDS, 2000000) >>,
      << Collateral(EQUITIES, 40000000) >> }

\* The inputs of the calls on a shared instance: the swap with 10,000 of
\* cash posted, another netting set, and a netting set with no trades.
EngineInputs ==
    { [netting_set |-> [netting_set_id |-> "NS1", counterparty |-> "BigBank Corp",
                        trades |-> << IRS1 >>, threshold |-> 0, mta |-> 0, nica |-> 0],
       collateral |-> << Collateral(CASH, 10000) >>],
      [netting_set |-> [netting_set_id |-> "NS2", counterparty |-> "Lowell Hotel Properties LLC",
                        trades |-> << FXO1, IRS2 >>, threshold |-> 12000000,
                        mta |-> 1000000, nica |-> 0],
       collateral |-> << >>],
      [netting_set |-> [netting_set_id |-> "NS3", counterparty |-> "BigBank Corp",
                        trades |-> << >>, threshold |-> 0, mta |-> 0, nica |-> 0],
       collateral |-> << >>] }

\* the calls made on the instance in one behaviour
MaxCalls == 2

\* the half days the clock advances
MaxTicks == 1

\* the times a running call is preempted by another thread
MaxSwitches == 2

ForceValues == { None, Some(TRUE), Some(FALSE) }

(***************************************************************************)
(* State.                                                                  *)
(*   now        the clock datetime.now() reads, in quarter days            *)
(*   engine     the fields of the one UnifiedSACCREngine instance          *)
(*   heap       the lists the instance and the results refer to            *)
(*   calls      per caller (thread), its call on the instance              *)
(*   validation the last result of validate_input_completeness, with its   *)
(*              input                                                      *)
(*   dual       the last outcome of calculate_dual_scenario_saccr          *)
(*   log        the finished calls, in the order they ended: each with the *)
(*              call as it ended, the clock, and what the caller read in   *)
(*              the result at that moment                                  *)
(*   sched      the thread that ran last and the preemptions so far        *)
(*   lookup     the last lookup of a regulatory parameter: what was looked *)
(*              up and what the lookup gave                                *)
(***************************************************************************)
VARIABLES now, engine, heap, calls, validation, dual, log, sched, lookup

vars == <<now, engine, heap, calls, validation, dual, log, sched, lookup>>

Threads == {1, 2}

\* the clock when the instance is built: 06:00 of day 0
Start == At(0, 1)

Fresh ==
    /\ now = Start
    /\ engine = NewEngine
    /\ heap = NewHeap
    /\ calls = [t \in Threads |-> IdleCall]
    /\ validation = << >>
    /\ dual = << >>
    /\ log = << >>
    /\ sched = [last |-> 0, switches |-> 0]
    /\ lookup = << >>

(***************************************************************************)
(* SpecCalc: one operation of the engine's interface applied to a new      *)
(* instance, run from call to return.                                      *)
(***************************************************************************)
Untouched == Fresh

\* thread t's call and the instance become those of machine m
Resume(t, m) ==
    /\ calls' = [calls EXCEPT ![t] = m.call]
    /\ engine' = m.engine
    /\ heap' = m.heap

Comprehensive(netting_set, collateral) ==
    /\ Untouched
    /\ Resume(1, calculate_comprehensive_saccr(engine, heap, netting_set, collateral, now))
    /\ UNCHANGED <<now, validation, dual, log, sched, lookup>>

Path(netting_set, collateral, force_margined) ==
    /\ Untouched
    /\ Resume(1, execute_calculation_path(engine, heap, netting_set, collateral,
                                          force_margined, now))
    /\ UNCHANGED <<now, validation, dual, log, sched, lookup>>

\* the caller holds what the dual calculation gave; the instance is as the
\* calculation left it
DualReturns(netting_set, collateral, d) ==
    /\ dual' = << [netting_set |-> netting_set, collateral |-> collateral,
                   status |-> d.status, scenarios |-> d.scenarios,
                   selected_scenario |-> d.selected_scenario,
                   final_results |-> d.final_results] >>
    /\ engine' = d.engine
    /\ heap' = d.heap

DualScenario(netting_set, collateral) ==
    /\ Untouched
    /\ DualReturns(netting_set, collateral,
                   calculate_dual_scenario_saccr(engine, heap, netting_set, collateral, now))
    /\ UNCHANGED <<now, calls, validation, log, sched, lookup>>

Validate(netting_set, collateral) ==
    /\ Untouched
    /\ validation' = << [netting_set |-> netting_set, collateral |-> collateral,
                         result |-> validate_input_completeness(netting_set, collateral)] >>
    /\ UNCHANGED <<now, engine, heap, calls, dual, log, sched, lookup>>

\* _execute_calculation of ui/pages/calculator.py: the page's own check,
\* then the engine's calculation inside try/except
execute_calculation(netting_set, collateral) ==
    /\ Untouched
    /\ IF netting_set.netting_set_id = "" \/ netting_set.counterparty = ""
          \/ Len(netting_set.trades) = 0
       THEN /\ calls' = [calls EXCEPT ![1] =
                          [NewCall("comprehensive", netting_set, collateral, None, now)
                              EXCEPT !.status = "rejected"]]
            /\ UNCHANGED <<now, engine, heap, validation, dual, log, sched, lookup>>
       ELSE Comprehensive(netting_set, collateral)

NextCalc ==
    \E netting_set \in NettingSets, collateral \in CollateralLists :
        \/ Comprehensive(netting_set, collateral)
        \/ execute_calculation(netting_set, collateral)
        \/ \E force_margined \in ForceValues :
               Path(netting_set, collateral, force_margined)
        \/ DualScenario(netting_set, collateral)
        \/ Validate(netting_set, collateral)

SpecCalc == Fresh /\ [][NextCalc]_vars

(***************************************************************************)
(* Spec: one caller makes calls on the shared instance, one after the      *)
(* other; a call proceeds step by step and the clock may advance at any    *)
(* point.  SpecThreads: two threads call calculate_comprehensive_saccr on  *)
(* the shared instance and their steps interleave.                         *)
(***************************************************************************)
Running == { t \in Threads : calls[t].status = "running" }

Call(t, kind, input, force_margined) ==
    /\ calls[t].status # "running"
    /\ Len(log) + Cardinality(Running) < MaxCalls
    /\ calls' = [calls EXCEPT ![t] = NewCall(kind, input.netting_set, input.collateral,
                                             force_margined, now)]
    /\ UNCHANGED <<now, engine, heap, validation, dual, log, sched, lookup>>

\* the outcome of the call of machine m
OutcomeOf(m) == Outcome(m.call, m.heap)

\* What a call gives when it is run alone on a new instance, with the clock
\* standing at the reading of the call's start.
Alone(call) ==
    OutcomeOf(RunCall([call |-> NewCall(call.kind, call.netting_set, call.collateral,
                                        call.force_margined, call.started),
                       engine |-> NewEngine, heap |-> NewHeap],
                      call.started))

\* a finished call is added to the log, with what it would have given alone
Logged(t, m) ==
    log' = IF m.call.status = "running" THEN log
           ELSE Append(log, [thread |-> t, call |-> m.call, finished |-> now,
                             outcome |-> OutcomeOf(m), alone |-> Alone(m.call)])

\* thread t's call has moved to machine m
Proceed(t, m) == Resume(t, m) /\ Logged(t, m)

\* thread t preempts the thread that ran last when that one's call is still
\* in progress
Preempts(t) == sched.last \notin {0, t} /\ calls[sched.last].status = "running"

\* Thread t runs the next step of its call.
Step(t) ==
    /\ calls[t].status = "running"
    /\ Preempts(t) => sched.switches < MaxSwitches
    /\ sched' = [last |-> t,
                 switches |-> sched.switches + (IF Preempts(t) THEN 1 ELSE 0)]
    /\ Proceed(t, Advance([call |-> calls[t], engine |-> engine, heap |-> heap], now))
    /\ UNCHANGED <<now, validation, dual, lookup>>

\* half a day passes
Tick ==
    /\ now < Start + 2 * MaxTicks
    /\ now' = now + 2
    /\ UNCHANGED <<engine, heap, calls, validation, dual, log, sched, lookup>>

Next ==
    \/ \E input \in EngineInputs :
           \/ Call(1, "comprehensive", input, None)
           \/ \E force_margined \in ForceValues : Call(1, "path", input, force_margined)
    \/ Step(1)
    \/ Tick

Spec == Fresh /\ [][Next]_vars

NextThreads ==
    \/ \E t \in Threads, input \in EngineInputs : Call(t, "comprehensive", input, None)
    \/ \E t \in Threads : Step(t)

SpecThreads == Fresh /\ [][NextThreads]_vars

(***************************************************************************)
(* SpecParams: one lookup of a regulatory parameter on a new instance.     *)
(* The keys are the members of the enumerations and of the risk-weight     *)
(* table, and one value outside each.                                      *)
(***************************************************************************)
AssetClass == { INTEREST_RATE, FOREIGN_EXCHANGE, CREDIT, EQUITY, COMMODITY }

CollateralType == { CASH, GOVERNMENT_BONDS, CORPORATE_BONDS, EQUITIES, MONEY_MARKET }

RiskWeightCategories == { "Corporate", "Bank", "Sovereign", "Non-Profit Org" }

\* The keys looked up: the asset classes, the collateral types and the
\* categories of the tables and values outside them; currencies of each
\* group; a year, three years and 8.33 years to maturity, in days.
LookupKeys ==
    [asset_class |-> AssetClass \cup { "Other" },
     currency |-> { "USD", "EUR", "JPY", "CHF", "BRL" },
     days |-> { 0, 7, 366, 1097, 3042, 14610 },
     collateral_type |-> CollateralType \cup { "Other" },
     amount |-> { 10000, 2000000, 40000000 },
     haircut |-> { 0, 100 },
     counterparty_type |-> RiskWeightCategories \cup { "Hedge Fund", "Central Counterparty" }]

\* what a lookup gave: it returned value (raised is FALSE: none of the four
\* lookups has a raise statement or indexes a table with a key it may lack)
Looked(op, key, value, steps) ==
    lookup' = << [op |-> op, key |-> key, raised |-> FALSE, value |-> value,
                  steps |-> steps] >>

\* _get_supervisory_factor(trade), and Steps 8, 9, 11, 5 and 6 for the trade
\* alone (the steps read asset_class.value, which only a member of
\* AssetClass has), and the trade's own calculate_adjusted_notional()
LookupSupervisoryFactor(trade) ==
    /\ Untouched
    /\ Looked("supervisory_factor", trade, get_supervisory_factor(trade, now),
              IF trade.asset_class \in AssetClass
              THEN << step8_supervisory_factor_enhanced(<< trade >>, now),
                      step9_adjusted_derivatives_contract_amount_enhanced(<< trade >>, now),
                      step11_hedging_set_addon(<< trade >>, now),
                      step5_adjusted_notional(<< trade >>),
                      step6_maturity_factor_enhanced(<< trade >>, now),
                      calculate_adjusted_notional(trade, now) >>
              ELSE << >>)
    /\ UNCHANGED <<now, engine, heap, calls, validation, dual, log, sched>>

\* self.supervisory_correlations.get(asset_class, 0.5)
LookupCorrelation(asset_class) ==
    /\ Untouched
    /\ Looked("supervisory_correlation", asset_class,
              SUPERVISORY_CORRELATIONS(asset_class), << >>)
    /\ UNCHANGED <<now, engine, heap, calls, validation, dual, log, sched>>

\* _step23_risk_weight(counterparty_type)
LookupRiskWeight(counterparty_type) ==
    /\ Untouched
    /\ Looked("risk_weight", counterparty_type,
              step23_risk_weight(counterparty_type).risk_weight,
              << step23_risk_weight(counterparty_type) >>)
    /\ UNCHANGED <<now, engine, heap, calls, validation, dual, log, sched>>

\* self.collateral_haircuts.get(coll.collateral_type, 15.0), the effective
\* value Step 14 takes with it, and the item's own effective_value()
LookupHaircut(coll) ==
    /\ Untouched
    /\ Looked("haircut", coll, COLLATERAL_HAIRCUTS(coll.collateral_type),
              << collateral_effective_value(coll), effective_value(coll),
                 step14_sum_v_c_enhanced(REFERENCE_NETTING_SET, << coll >>) >>)
    /\ UNCHANGED <<now, engine, heap, calls, validation, dual, log, sched>>

NextParams ==
    \/ \E asset_class \in LookupKeys.asset_class, currency \in LookupKeys.currency,
          days \in LookupKeys.days :
           LookupSupervisoryFactor(
               Trade("T1", asset_class, SWAP, 10000000, currency, Some(At(days, 0)),
                     100000, 100, 0))
    \/ \E asset_class \in LookupKeys.asset_class : LookupCorrelation(asset_class)
    \/ \E counterparty_type \in LookupKeys.counterparty_type :
           LookupRiskWeight(counterparty_type)
    \/ \E type \in LookupKeys.collateral_type, amount \in LookupKeys.amount,
          haircut \in LookupKeys.haircut :
           LookupHaircut([Collateral(type, amount) EXCEPT !.haircut = haircut])

SpecParams == Fresh /\ [][NextParams]_vars

(***************************************************************************)
(* The properties.                                                         *)
(***************************************************************************)
\* the call of SpecCalc's caller has returned
Returned == calls[1].status = "returned"

PassesValidation(netting_set, collateral) ==
    validate_input_completeness(netting_set, collateral).can_proceed

\* two outcomes are the same: the same ending at the same place and, for a
\* return, the same result
SameOutcome(a, b) ==
    /\ a.status = b.status
    /\ a.at = b.at
    /\ a.status = "returned" => a.result = b.result

\* C1: for every input that passes validation, the multiplier of Step 15 of
\* a returned calculation (comprehensive, or a path forced or not) is within
\* 0.05 and 1.0, and the PFE is at most the aggregate add-on.
C1_MultiplierBounds ==
    (Returned /\ PassesValidation(calls[1].netting_set, calls[1].collateral))
        => /\ 50 <= calls[1].loc.multiplier
           /\ calls[1].loc.multiplier <= 1000
           /\ calls[1].loc.pfe <= calls[1].loc.aggregate_addon

WithCollateral(collateral) ==
    IF calls[1].kind = "comprehensive"
    THEN calculate_comprehensive_saccr(NewEngine, NewHeap, calls[1].netting_set,
                                       collateral, calls[1].started)
    ELSE execute_calculation_path(NewEngine, NewHeap, calls[1].netting_set,
                                  collateral, calls[1].force_margined, calls[1].started)

\* neither RC nor EAD of machine m is above that of the caller's call
NotAbove(m) ==
    m.call.status = "returned"
        => /\ m.call.loc.rc <= calls[1].loc.rc
           /\ m.call.loc.ead <= calls[1].loc.ead

\* C3: with the trades and the terms fixed, a collateral list of at least
\* the effective value gives an RC and an EAD that are no larger, in the
\* comprehensive calculation and in each path.
C3_CollateralMonotone ==
    Returned =>
        \A collateral \in CollateralLists :
            step14_sum_v_c_enhanced(calls[1].netting_set, collateral).sum_c
                    >= calls[1].loc.sum_c
                => NotAbove(WithCollateral(collateral))

\* C4: a comprehensive calculation during which the clock stood still gives,
\* whatever calls the instance has served, what it gives on a new instance.
C4_HistoryIndependent ==
    \A i \in 1..Len(log) :
        (log[i].call.kind = "comprehensive" /\ log[i].call.started = log[i].finished)
            => SameOutcome(log[i].outcome, log[i].alone)

\* C5: a comprehensive calculation gives what it gives alone when the other
\* thread's calculation, for another netting set, shares the instance.
C5_InterleavedAsAlone ==
    \A i \in 1..Len(log) : \A u \in Threads \ {log[i].thread} :
        (/\ calls[u].status # "idle"
         /\ calls[u].netting_set.netting_set_id
                # log[i].call.netting_set.netting_set_id)
            => SameOutcome(log[i].outcome, log[i].alone)

\* C6: two comprehensive calculations of the same inputs, both begun and
\* ended on the same date, give the same outcome.
C6_Deterministic ==
    \A i, j \in 1..Len(log) :
        (/\ log[i].call.kind = "comprehensive"
         /\ log[j].call.kind = "comprehensive"
         /\ log[i].call.netting_set = log[j].call.netting_set
         /\ log[i].call.collateral = log[j].call.collateral
         /\ Date(log[i].call.started) = Date(log[j].finished)
         /\ Date(log[j].call.started) = Date(log[i].finished)
         /\ Date(log[i].call.started) = Date(log[i].finished))
            => SameOutcome(log[i].outcome, log[j].outcome)

\* the inputs C7 calls valid: trades, none with a zero notional, and no
\* negative collateral amount
ValidInputs(netting_set, collateral) ==
    /\ Len(netting_set.trades) > 0
    /\ \A i \in 1..Len(netting_set.trades) : netting_set.trades[i].notional # 0
    /\ \A i \in 1..Len(collateral) : collateral[i].amount >= 0

NonNegative(final_results) ==
    /\ final_results.replacement_cost >= 0
    /\ final_results.potential_future_exposure >= 0
    /\ final_results.exposure_at_default >= 0
    /\ final_results.risk_weighted_assets >= 0
    /\ final_results.capital_requirement >= 0

\* C7: for valid inputs the RC, PFE, EAD, RWA and capital of a returned
\* comprehensive calculation, of a returned path and of a returned
\* dual-scenario calculation are not negative.
C7_NonNegative ==
    /\ (Returned /\ ValidInputs(calls[1].netting_set, calls[1].collateral))
           => /\ calls[1].loc.rc >= 0
              /\ calls[1].loc.pfe >= 0
              /\ calls[1].loc.ead >= 0
              /\ calls[1].loc.rwa >= 0
              /\ calls[1].kind = "comprehensive"
                     => NonNegative(calls[1].result.final_results)
    /\ (/\ dual # << >>
        /\ dual[1].status = "returned"
        /\ ValidInputs(dual[1].netting_set, dual[1].collateral))
           => NonNegative(dual[1].final_results)

\* a comprehensive calculation has returned for valid inputs with a negative
\* notional, a negative V - C and a negative TH + MTA - NICA
C7_Witness ==
    /\ Returned
    /\ calls[1].kind = "comprehensive"
    /\ ValidInputs(calls[1].netting_set, calls[1].collateral)
    /\ \E i \in 1..Len(calls[1].netting_set.trades) :
           calls[1].netting_set.trades[i].notional < 0
    /\ calls[1].loc.sum_v - calls[1].loc.sum_c < 0
    /\ calls[1].netting_set.threshold + calls[1].netting_set.mta
           - calls[1].netting_set.nica < 0
    /\ calls[1].netting_set.mta > 0
    /\ calls[1].result.final_results.replacement_cost = 0

\* C8: a calculation asked for an input that fails validation is refused: no
\* step record is made and no step raises.
C8_ValidationAborts ==
    (/\ calls[1].status \in {"returned", "raised", "rejected"}
     /\ ~PassesValidation(calls[1].netting_set, calls[1].collateral))
        => /\ calls[1].status = "rejected"
           /\ calls[1].calculation_steps = << >>

\* C9: a comprehensive calculation of an input that passes validation
\* returns with its 24 step records; with a zero aggregate add-on the
\* multiplier is 1.0 and the PFE 0.
C9_ValidatedCompletes ==
    (/\ calls[1].status \in {"returned", "raised"}
     /\ calls[1].kind = "comprehensive"
     /\ PassesValidation(calls[1].netting_set, calls[1].collateral))
        => /\ Returned
           /\ Len(calls[1].calculation_steps) = 24
           /\ calls[1].loc.aggregate_addon = 0
                  => calls[1].loc.multiplier = 1000 /\ calls[1].loc.pfe = 0

\* the violations of a netting set: (0, field) for the set, (i, field) for
\* trade i
Violations(netting_set) ==
    { <<0, "Netting Set ID">> : x \in { y \in {0} : netting_set.netting_set_id = "" } }
    \cup { <<0, "Counterparty name">> : x \in { y \in {0} : netting_set.counterparty = "" } }
    \cup { <<0, "At least one trade">> : x \in { y \in {0} : Len(netting_set.trades) = 0 } }
    \cup { <<i, "Trade ID">> :
               i \in { k \in 1..Len(netting_set.trades) :
                           netting_set.trades[k].trade_id = "" } }
    \cup { <<i, "Notional amount">> :
               i \in { k \in 1..Len(netting_set.trades) :
                           netting_set.trades[k].notional = 0 } }
    \cup { <<i, "Currency">> :
               i \in { k \in 1..Len(netting_set.trades) :
                           netting_set.trades[k].currency = "" } }
    \cup { <<i, "Maturity date">> :
               i \in { k \in 1..Len(netting_set.trades) :
                           netting_set.trades[k].maturity_date = None } }

\* the netting set with every option's delta specified
WithDeltas(netting_set) ==
    [netting_set EXCEPT !.trades =
        [i \in 1..Len(netting_set.trades) |->
            IF IsOption(netting_set.trades[i])
            THEN [netting_set.trades[i] EXCEPT !.delta = 50]
            ELSE netting_set.trades[i]]]

\* C10: missing_fields holds each violation of the input once; is_complete
\* and can_proceed say that there is none; the input with its option deltas
\* specified, which has no warning, has the same can_proceed.
C10_EnumeratesViolations ==
    validation # << >>
        => LET result == validation[1].result
               netting_set == validation[1].netting_set
           IN  /\ { result.missing_fields[k] : k \in 1..Len(result.missing_fields) }
                      = Violations(netting_set)
               /\ Len(result.missing_fields) = Cardinality(Violations(netting_set))
               /\ result.is_complete = (result.missing_fields = << >>)
               /\ result.can_proceed = (result.missing_fields = << >>)
               /\ validate_input_completeness(WithDeltas(netting_set),
                                              validation[1].collateral).warnings = << >>
               /\ validate_input_completeness(WithDeltas(netting_set),
                                              validation[1].collateral).can_proceed
                      = result.can_proceed

\* a validation has listed four violations or more, of two trades
C10_Witness ==
    /\ validation # << >>
    /\ Len(validation[1].result.missing_fields) >= 4
    /\ \E a, b \in 1..Len(validation[1].result.missing_fields) :
           /\ validation[1].result.missing_fields[a][1] = 1
           /\ validation[1].result.missing_fields[b][1] = 2
    /\ ~validation[1].result.can_proceed

\* the step records a returned call's result holds
ResultSteps ==
    IF calls[1].kind = "comprehensive" THEN calls[1].result.calculation_steps
    ELSE calls[1].result.steps

\* the largest element of a set of integers
Largest(S) == CHOOSE x \in S : \A y \in S : y <= x

\* C11: the result of a comprehensive calculation and of a path holds 24
\* step records, the record at position k being that of step k, and the
\* records of steps 13, 15, 16, 18, 21 and 24 hold in their data the keys
\* aggregate_addon, multiplier, pfe, rc, ead, and rwa with
\* capital_requirement, with the values the calculation passed on.
C11_StepRecords ==
    Returned =>
        /\ Len(ResultSteps) = 24
        /\ \A k \in 1..24 : ResultSteps[k].step = k
        /\ "aggregate_addon" \in DOMAIN ResultSteps[13].data
        /\ "multiplier" \in DOMAIN ResultSteps[15].data
        /\ "pfe" \in DOMAIN ResultSteps[16].data
        /\ "rc" \in DOMAIN ResultSteps[18].data
        /\ "ead" \in DOMAIN ResultSteps[21].data
        /\ {"rwa", "capital_requirement"} \subseteq DOMAIN ResultSteps[24].data
        /\ ResultSteps[13].data.aggregate_addon = calls[1].loc.aggregate_addon
        /\ ResultSteps[15].data.multiplier = calls[1].loc.multiplier
        /\ ResultSteps[16].data.pfe = calls[1].loc.pfe
        /\ ResultSteps[18].data.rc = calls[1].loc.rc
        /\ ResultSteps[21].data.ead = calls[1].loc.ead
        /\ ResultSteps[24].data.rwa = calls[1].loc.rwa

\* a path forced to Margined has returned its 24 records, and so has a
\* comprehensive calculation of two trades
C11_Witness ==
    /\ Returned
    /\ Len(ResultSteps) = 24
    /\ \/ calls[1].kind = "path" /\ calls[1].force_margined = Some(TRUE)
       \/ calls[1].kind = "comprehensive" /\ Len(calls[1].netting_set.trades) = 2

\* the margining a returned call's Step 18 is to apply: the flag of a forced
\* path, and otherwise threshold > 0 or MTA > 0
Margining ==
    IF calls[1].kind = "path" /\ calls[1].force_margined # None
    THEN calls[1].force_margined[1]
    ELSE calls[1].netting_set.threshold > 0 \/ calls[1].netting_set.mta > 0

\* C12: the RC of a returned calculation is max(V - C, TH + MTA - NICA, 0)
\* when the netting set is margined (threshold > 0 or MTA > 0) and
\* max(V - C, 0) when it is not; a forced path takes the margining from
\* force_margined, whatever the threshold and the MTA.
C12_MarginingRule ==
    Returned =>
        LET ns  == calls[1].netting_set
            net == calls[1].loc.sum_v - calls[1].loc.sum_c
        IN  /\ ResultSteps[18].data.is_margined = Margining
            /\ ResultSteps[18].data.net_exposure = net
            /\ ResultSteps[18].data.rc =
                   IF Margining
                   THEN Largest({net, ns.threshold + ns.mta - ns.nica, 0})
                   ELSE Largest({net, 0})

\* a path forced to Unmargined has returned, for a netting set with a
\* threshold, an RC below TH + MTA - NICA; or a path forced to Margined, for
\* a netting set with neither threshold nor MTA, an RC above V - C
C12_Witness ==
    /\ Returned
    /\ calls[1].kind = "path"
    /\ \/ /\ calls[1].force_margined = Some(FALSE)
          /\ calls[1].netting_set.threshold > 0
          /\ calls[1].loc.rc < calls[1].netting_set.threshold + calls[1].netting_set.mta
                                   - calls[1].netting_set.nica
       \/ /\ calls[1].force_margined = Some(TRUE)
          /\ calls[1].netting_set.threshold = 0
          /\ calls[1].netting_set.mta = 0
          /\ calls[1].loc.rc > calls[1].loc.sum_v - calls[1].loc.sum_c

\* rwa * 0.08 in tenths of a dollar, rounded down: 0.08 is 2/25.  The risk
\* weight is in tenths: weight * ead / 10 is taken by parts, and is exact
\* when the second part leaves no remainder.
CapitalOf(rwa) == 2 * (rwa \div 25) + (2 * (rwa % 25)) \div 25

\* C13: in every result Step 24's rwa is the risk weight of Step 23 times
\* the EAD of Step 21 and its capital_requirement is rwa * 0.08; the final
\* results of a comprehensive calculation hold the RWA and the capital of
\* Step 24, the EAD of Step 21, the RC of Step 18 and the PFE of Step 16, and
\* the result of a path holds those of its steps.
C13_CapitalIdentities ==
    Returned =>
        LET rwa     == ResultSteps[24].data.rwa
            capital == ResultSteps[24].data.capital_requirement
            ead     == ResultSteps[21].data.ead
            weight  == ResultSteps[23].data.risk_weight_decimal
        IN  /\ rwa = weight * (ead \div 10) + (weight * (ead % 10)) \div 10
            /\ (weight * (ead % 10)) % 10 = 0
            /\ capital = CapitalOf(rwa)
            /\ calls[1].kind = "comprehensive" =>
                   LET final == calls[1].result.final_results
                   IN  /\ final.risk_weighted_assets = rwa
                       /\ final.capital_requirement = capital
                       /\ final.exposure_at_default = ead
                       /\ final.replacement_cost = ResultSteps[18].data.rc
                       /\ final.potential_future_exposure = ResultSteps[16].data.pfe
            /\ calls[1].kind = "path" =>
                   /\ calls[1].result.rwa = rwa
                   /\ calls[1].result.ead = ead
                   /\ calls[1].result.rc = ResultSteps[18].data.rc
                   /\ calls[1].result.pfe = ResultSteps[16].data.pfe

\* a comprehensive calculation has returned an RWA that is not a multiple of
\* 12.5 dollars, so that the capital is not a whole number of tenths
C13_Witness ==
    /\ Returned
    /\ calls[1].kind = "comprehensive"
    /\ calls[1].result.final_results.risk_weighted_assets > 0
    /\ calls[1].result.final_results.risk_weighted_assets % 25 # 0
    /\ calls[1].result.final_results.capital_requirement > 0

\* C14: the CEU flag of Step 19 is 1 exactly when a trade has ceu_flag = 1;
\* Step 20 gives alpha = 1.0 for the flag 1 and 1.4 otherwise; the EAD is
\* that alpha times RC + PFE.
C14_AlphaByCEU ==
    Returned =>
        LET trades == calls[1].netting_set.trades
            flag   == IF \E i \in 1..Len(trades) : trades[i].ceu_flag = 1 THEN 1 ELSE 0
            alpha  == IF flag = 1 THEN 10 ELSE 14
        IN  /\ ResultSteps[19].data.overall_ceu_flag = flag
            /\ ResultSteps[20].data.alpha = alpha
            /\ ResultSteps[21].data.ead = alpha * (calls[1].loc.rc + calls[1].loc.pfe)

\* The percentage the table SUPERVISORY_FACTORS holds for a trade, in
\* hundredths of a percent, which is the decimal factor in 1/10000.
TablePercent(trade, today) ==
    CASE trade.asset_class = INTEREST_RATE ->
             LET row == IF trade.currency \in {"USD", "EUR", "JPY", "GBP"}
                        THEN SUPERVISORY_FACTORS.ir_major
                        ELSE SUPERVISORY_FACTORS.ir_other
             IN  IF time_to_maturity(trade, today) < 20000 THEN row.lt2
                 ELSE IF time_to_maturity(trade, today) <= 50000 THEN row.m2to5
                 ELSE row.gt5
      [] trade.asset_class = FOREIGN_EXCHANGE ->
             IF trade.currency \in G10_CURRENCIES THEN SUPERVISORY_FACTORS.fx_g10
             ELSE SUPERVISORY_FACTORS.fx_emerging
      [] trade.asset_class = CREDIT -> SUPERVISORY_FACTORS.credit_ig_single
      [] trade.asset_class = EQUITY -> SUPERVISORY_FACTORS.equity_single_large
      [] trade.asset_class = COMMODITY -> SUPERVISORY_FACTORS.commodity_energy

\* C15: for a trade of each of the five asset classes the decimal factor of
\* Steps 8, 9 and 11 is the table's percentage divided by 100, and the
\* amounts of Steps 9 and 11 are taken with that factor.
C15_PercentToDecimal ==
    (/\ lookup # << >>
     /\ lookup[1].op = "supervisory_factor"
     /\ lookup[1].key.asset_class \in AssetClass)
        => LET trade   == lookup[1].key
               percent == TablePercent(trade, now)
               amount  == MulDiv(Abs(effective_notional(trade, now)), percent, 10000)
           IN  /\ lookup[1].steps[1].data[1].supervisory_factor_decimal = percent
               /\ lookup[1].steps[2].data[1].supervisory_factor = percent
               /\ Abs(lookup[1].steps[2].data[1].adjusted_derivatives_contract_amount)
                      = amount
               /\ lookup[1].steps[3].data[1].hedging_set_addon = amount

\* x is within 2% of the expected value
Within2Percent(x, expected) == Abs(x - expected) <= expected \div 50

\* C16: the unmargined path of the reference example (no collateral) gives
\* an EAD within 2% of 11,790,314 and, at a risk weight of 100%, a capital
\* requirement within 2% of 943,225 (figures in tenths of a dollar).
C16_ReferenceExample ==
    (/\ calls[1].status \in {"returned", "raised"}
     /\ calls[1].kind = "path"
     /\ calls[1].force_margined = Some(FALSE)
     /\ calls[1].netting_set = REFERENCE_NETTING_SET
     /\ calls[1].collateral = << >>)
        => /\ Returned
           /\ ResultSteps[23].data.risk_weight_decimal = 10
           /\ Within2Percent(calls[1].result.ead, 117903140)
           /\ Within2Percent(ResultSteps[24].data.capital_requirement, 9432250)

\* the issues of the analysis with this field and this trade
IssuesOf(issues, field_name, trade_id, impact) ==
    Cardinality({ k \in 1..Len(issues) :
                    /\ issues[k].field_name = field_name
                    /\ issues[k].trade_id = trade_id
                    /\ issues[k].impact = impact })

\* the trades of a list with a property
TradesWith(trades, P(_)) == Cardinality({ i \in 1..Len(trades) : P(trades[i]) })

\* C17: the issue list of a comprehensive calculation holds one High
\* Threshold/MTA issue iff threshold = 0 and MTA = 0, one High MTM issue per
\* trade with no MTM, one Medium delta issue per Option or Swaption with
\* delta 1.0, one High collateral issue iff there is no collateral, and
\* nothing else: its length is the sum of the four.
C17_IndependentRules ==
    (calls[1].kind = "comprehensive" /\ calls[1].status \in {"returned", "raised"})
        => LET ns     == calls[1].netting_set
               issues == engine.data_quality_issues
               terms  == IF ns.threshold = 0 /\ ns.mta = 0 THEN 1 ELSE 0
               coll   == IF calls[1].collateral = << >> THEN 1 ELSE 0
               NoMTM(t) == t.mtm_value = 0
               DefaultDelta(t) == t.trade_type \in {OPTION, SWAPTION} /\ t.delta = 100
           IN  /\ IssuesOf(issues, "Threshold/MTA", "", "high") = terms
               /\ IssuesOf(issues, "Collateral Portfolio", "", "high") = coll
               /\ \A i \in 1..Len(ns.trades) :
                      /\ IssuesOf(issues, "MTM Value", ns.trades[i].trade_id, "high")
                             = TradesWith(ns.trades,
                                   LAMBDA t : t.trade_id = ns.trades[i].trade_id /\ NoMTM(t))
                      /\ IssuesOf(issues, "Option Delta", ns.trades[i].trade_id, "medium")
                             = TradesWith(ns.trades,
                                   LAMBDA t : t.trade_id = ns.trades[i].trade_id
                                              /\ DefaultDelta(t))
               /\ Len(issues) = terms + TradesWith(ns.trades, NoMTM)
                                  + TradesWith(ns.trades, DefaultDelta) + coll

\* an analysis has given the four kinds of issue at once, two of them for
\* one trade
C17_Witness ==
    /\ calls[1].kind = "comprehensive"
    /\ Returned
    /\ Len(engine.data_quality_issues) >= 4
    /\ \E id \in {"FXO1"} :
           /\ IssuesOf(engine.data_quality_issues, "MTM Value", id, "high") = 1
           /\ IssuesOf(engine.data_quality_issues, "Option Delta", id, "medium") = 1
    /\ IssuesOf(engine.data_quality_issues, "Threshold/MTA", "", "high") = 1
    /\ IssuesOf(engine.data_quality_issues, "Collateral Portfolio", "", "high") = 1

\* C18: a comprehensive calculation with no collateral, for an input that
\* passes validation, reports the missing collateral among its issues and
\* returns with its 24 steps and C = 0.
C18_EmptyCollateralCompletes ==
    (/\ calls[1].kind = "comprehensive"
     /\ calls[1].status \in {"returned", "raised"}
     /\ calls[1].collateral = << >>
     /\ PassesValidation(calls[1].netting_set, calls[1].collateral))
        => /\ IssuesOf(engine.data_quality_issues, "Collateral Portfolio", "", "high") = 1
           /\ Returned
           /\ Len(calls[1].calculation_steps) = 24
           /\ calls[1].loc.sum_c = 0

\* the key of a lookup is not in the table looked up
Unmapped(l) ==
    CASE l.op = "supervisory_factor" -> l.key.asset_class \notin AssetClass
      [] l.op = "supervisory_correlation" -> l.key \notin AssetClass
      [] l.op = "risk_weight" -> l.key \notin RiskWeightCategories
      [] l.op = "haircut" -> l.key.collateral_type \notin CollateralType

\* C19: a lookup of a supervisory factor, a supervisory correlation, a risk
\* weight or a haircut with a key the table does not hold raises.
C19_UnmappedKeyRaises ==
    (lookup # << >> /\ Unmapped(lookup[1])) => lookup[1].raised

\* the sum of the asset-class add-ons a Step 12 record lists
ListedAddons(step12) ==
    SumSeq([a \in 1..Len(step12.data) |-> step12.data[a].asset_class_addon])

\* the asset class of the last trade of a list is that of no earlier trade
LastIsNewClass(trades) ==
    /\ Len(trades) >= 2
    /\ \A i \in 1..(Len(trades) - 1) :
           trades[i].asset_class # trades[Len(trades)].asset_class

\* C20: in every result the aggregate add-on of Step 13 is the sum of the
\* asset-class add-ons Step 12 lists, and it is not below the aggregate
\* add-on of the same trades without the last one when that one is of a
\* new asset class.
C20_AggregateIsSum ==
    \A i \in 1..Len(log) :
        log[i].outcome.status = "returned" =>
            LET steps  == IF log[i].call.kind = "comprehensive"
                          THEN log[i].outcome.result.calculation_steps
                          ELSE log[i].outcome.result.steps
                trades == log[i].call.netting_set.trades
            IN  /\ steps[13].data.aggregate_addon = ListedAddons(steps[12])
                /\ LastIsNewClass(trades) =>
                       step13_aggregate_addon_enhanced(trades, log[i].finished).aggregate_addon
                           >= step13_aggregate_addon_enhanced(
                                  SubSeq(trades, 1, Len(trades) - 1),
                                  log[i].finished).aggregate_addon

\* The category a counterparty master holds for a counterparty of the model:
\* the hotel company of the reference example is a corporate, the Treasury a
\* sovereign.  (The engine reads no such record: see step22_counterparty_info.)
CounterpartyCategory(counterparty) ==
    CASE counterparty = "Lowell Hotel Properties LLC" -> "Corporate"
      [] counterparty = "United States Treasury" -> "Sovereign"
      [] OTHER -> "Unknown"

\* C21: the risk weight of Step 23 is the weight RISK_WEIGHT_MAPPING gives
\* for the category of the netting set's counterparty, and the RWA is that
\* weight times the EAD: for a sovereign counterparty the weight is 0% and
\* the RWA is 0, for a corporate the weight is 100% and the RWA is the EAD.
C21_WeightOfCategory ==
    (/\ Returned
     /\ CounterpartyCategory(calls[1].netting_set.counterparty) \in RiskWeightCategories)
        => LET category == CounterpartyCategory(calls[1].netting_set.counterparty)
               weight   == RISK_WEIGHT_MAPPING(category)
           IN  /\ ResultSteps[22].data.r35_risk_weight_category = category
               /\ ResultSteps[23].data.risk_weight_decimal = weight
               /\ calls[1].loc.rwa = MulDiv(calls[1].loc.ead, weight, 10)
               /\ (calls[1].loc.rwa = calls[1].loc.ead /\ calls[1].loc.ead > 0)
                      => weight = 10

\* the sum of the signed amounts Step 9 reports for the trades with key k
Step9Sum(trades, step9_data, k) ==
    SumSeq([i \in 1..Len(trades) |->
               IF hedging_set_key(trades[i]) = k
               THEN step9_data[i].adjusted_derivatives_contract_amount ELSE 0])

\* C22: the add-on Step 11 reports for a hedging set is the absolute value
\* of the sum of the signed adjusted contract amounts Step 9 reports for the
\* set's trades (each taken with the trade's own supervisory factor), up to
\* one dollar of rounding per trade.
C22_AddonOfStep9Amounts ==
    Returned =>
        \A h \in 1..Len(ResultSteps[11].data) :
            LET set == ResultSteps[11].data[h]
            IN  Abs(set.hedging_set_addon
                    - Abs(Step9Sum(calls[1].netting_set.trades, ResultSteps[9].data,
                                   set.hedging_set)))
                    <= set.trade_count

\* C23: the value Step 14 takes for a collateral item is
\* amount * (1 - haircut) with the item's own haircut when one is supplied
\* and the table's haircut for its type otherwise, C is the sum of these
\* values, and the value is the one Collateral.effective_value() gives.
C23_ItemHaircut ==
    (lookup # << >> /\ lookup[1].op = "haircut")
        => LET coll    == lookup[1].key
               haircut == IF coll.haircut # 0 THEN coll.haircut
                          ELSE COLLATERAL_HAIRCUTS(coll.collateral_type)
           IN  /\ lookup[1].steps[1] = MulDiv(coll.amount, 1000 - haircut, 1000)
               /\ lookup[1].steps[3].sum_c = lookup[1].steps[1]
               /\ lookup[1].steps[1] = lookup[1].steps[2]

\* C24: the adjusted notional of Steps 5 and 9, and the one Step 11's add-on
\* is taken from, is the one Trade.calculate_adjusted_notional gives (here
\* in thousands of dollars): |notional| x SD x 10,000 with SD >= 0.04 for an
\* interest-rate trade, |notional| for the other asset classes.
C24_AdjustedNotionalOfTrade ==
    (/\ lookup # << >>
     /\ lookup[1].op = "supervisory_factor"
     /\ lookup[1].key.asset_class \in AssetClass)
        => LET trade    == lookup[1].key
               steps    == lookup[1].steps
               adjusted == steps[6]
           IN  /\ trade.asset_class = INTEREST_RATE
                     => adjusted >= MulDiv(Abs(trade.notional), 40000, 100000)
               /\ trade.asset_class # INTEREST_RATE
                     => adjusted = Abs(trade.notional) \div 1000
               /\ steps[4].data[1].adjusted_notional \div 1000 = adjusted
               /\ steps[2].data[1].adjusted_notional \div 1000 = adjusted
               /\ Abs(steps[3].data[1].hedging_set_addon \div 1000
                      - MulDiv(MulDiv(adjusted, steps[2].data[1].maturity_factor, 10000),
                               steps[2].data[1].supervisory_factor, 10000)) <= 1

\* C25: the unmargined maturity factor of Steps 6 and 9 lies between
\* sqrt(10/250) and 1: it is sqrt(min(M, 1)) when that is above the floor
\* and the floor otherwise, in particular for a remaining maturity of 0.
\* (The floor sqrt(10/250) = 0.2 is 2000 in 1/10000.)
C25_MaturityFactorFloor ==
    (/\ lookup # << >>
     /\ lookup[1].op = "supervisory_factor"
     /\ lookup[1].key.asset_class \in AssetClass)
        => LET M  == time_to_maturity(lookup[1].key, now)
               mf == lookup[1].steps[5].data[1].maturity_factor
           IN  /\ lookup[1].steps[2].data[1].maturity_factor = mf
               /\ mf <= 10000
               /\ mf >= 2000
               /\ mf = Max2(ISqrt(Min2(M, 10000) * 10000), 2000)

\* C26: the result a comprehensive calculation returned (its steps, figures,
\* data-quality issues, thinking steps and assumptions, as the caller reads
\* them through the result) stays what it was at the return, whatever later
\* calls on the instance do.
C26_ResultsAreFrozen ==
    \A i \in 1..Len(log) :
        (log[i].call.kind = "comprehensive" /\ log[i].call.status = "returned")
            => ResultView(log[i].call, heap) = log[i].outcome.result

\* C27: whenever no call is in progress the instance has no _force_margined
\* attribute: every call of _execute_calculation_path removes it before it
\* ends, also when a step raises.
C27_NoFlagBetweenCalls ==
    Running = {} => engine.force_margined = None

\* the call of SpecCalc's caller is a returned path with this force_margined
ReturnedPath(force_margined) ==
    /\ Returned
    /\ calls[1].kind = "path"
    /\ calls[1].force_margined = force_margined

\* C28: for the inputs of a returned forced-margined path, the
\* forced-unmargined path on a new instance returns too, with RC not above
\* the margined RC, the same PFE and an EAD not above the margined EAD (so
\* that the lower-EAD selection takes Margined only on a tie).
C28_UnmarginedNotLarger ==
    ReturnedPath(Some(TRUE)) =>
        LET margined   == calls[1].result
            unmargined == execute_calculation_path(NewEngine, NewHeap,
                              calls[1].netting_set, calls[1].collateral,
                              Some(FALSE), now).call
        IN  /\ unmargined.status = "returned"
            /\ unmargined.result.rc <= margined.rc
            /\ unmargined.result.pfe = margined.pfe
            /\ unmargined.result.ead <= margined.ead

\* the figures a returned path call gives are those of the locals loc
SameFigures(path_call, loc) ==
    /\ path_call.status = "returned"
    /\ path_call.result.multiplier = loc.multiplier
    /\ path_call.result.pfe = loc.pfe
    /\ path_call.result.rc = loc.rc
    /\ path_call.result.ead = loc.ead
    /\ path_call.result.rwa = loc.rwa

\* C29: a returned comprehensive calculation has the multiplier, PFE, RC,
\* EAD and RWA that _execute_calculation_path returns for the same inputs on
\* a new instance with force_margined = (threshold > 0 or MTA > 0), and
\* those it returns with force_margined = None.
C29_ComprehensiveAsPath ==
    (Returned /\ calls[1].kind = "comprehensive") =>
        LET netting_set == calls[1].netting_set
            margined    == netting_set.threshold > 0 \/ netting_set.mta > 0
        IN  /\ SameFigures(execute_calculation_path(NewEngine, NewHeap, netting_set,
                               calls[1].collateral, None, now).call,
                           calls[1].loc)
            /\ SameFigures(execute_calculation_path(NewEngine, NewHeap, netting_set,
                               calls[1].collateral, Some(margined), now).call,
                           calls[1].loc)

\* a list in the opposite order
Reversed(s) == [i \in 1..Len(s) |-> s[Len(s) + 1 - i]]

\* the add-ons a Step 11 or Step 12 record lists, whatever their order
AddonsOf(data) == { data[i] : i \in 1..Len(data) }

\* C30: the hedging-set add-ons, the asset-class add-ons and the aggregate
\* add-on, and with them the PFE and the EAD, of a returned comprehensive
\* calculation are those the calculation gives for the same trades in the
\* opposite order.
C30_TradeOrderIndependent ==
    (Returned /\ calls[1].kind = "comprehensive") =>
        LET netting_set == calls[1].netting_set
            reordered   == calculate_comprehensive_saccr(NewEngine, NewHeap,
                               [netting_set EXCEPT !.trades = Reversed(@)],
                               calls[1].collateral, now).call
        IN  /\ reordered.status = "returned"
            /\ AddonsOf(reordered.calculation_steps[11].data)
                   = AddonsOf(ResultSteps[11].data)
            /\ AddonsOf(reordered.calculation_steps[12].data)
                   = AddonsOf(ResultSteps[12].data)
            /\ reordered.loc.aggregate_addon = calls[1].loc.aggregate_addon
            /\ reordered.loc.pfe = calls[1].loc.pfe
            /\ reordered.loc.ead = calls[1].loc.ead

=============================================================================
